---- MODULE Spec2Model ----
(***************************************************************************)
(* State-machine model of mk312/com.py, MK312CommunicationWrapper: the     *)
(* handshake with its key negotiation, the register primitives readaddress *)
(* and writedata, and the operations composed from them.  The serial port  *)
(* is the environment: every port.read() answer is chosen by the transport *)
(* from a small set of byte strings, short and empty answers included.     *)
(* One step of the model is one port.write()/port.read() exchange together *)
(* with all the code that runs up to the next exchange.                    *)
(***************************************************************************)
EXTENDS Integers, Sequences, FiniteSets, TLC

\* ------------------------------------------------------------------ bounds
\* Largest handshake_repeat a session is constructed with (0..MaxRepeat).
MaxRepeat == 2
\* Stand-in for the interpreter's recursion limit: nested handshake() frames.
MaxDepth == 3

\* --------------------------------------------------------------- constants
\* self.key = None
None == -1
\* The default key tried after a silent probe / silent key negotiation.
DEFAULT_KEY == 85
\* "device is ready for handshake" answer to the probe (0x07).
READY == 7
\* Acknowledgement of a write (0x06).
ACK == 6
\* First byte of the key-negotiation frame (0x2f).
KEYNEG_CMD == 47
\* First byte of a read frame (0x3c).
READ_CMD == 60

\* ------------------------------------------------------------ Python values
\* True/False/None/int as Python has them: bool is an int for ==, not for is.
PyInt(n) == [t |-> "int", v |-> n]
PyTrue == [t |-> "bool", v |-> 1]
PyFalse == [t |-> "bool", v |-> 0]
PyNone == [t |-> "NoneType", v |-> 0]

\* a == b
PyEq(a, b) ==
    IF a.t = "NoneType" \/ b.t = "NoneType"
    THEN a.t = b.t
    ELSE a.v = b.v

\* a is b, for small ints, bools and None (CPython shares ints -5..256)
PyIs(a, b) == a.t = b.t /\ a.v = b.v

\* How a call ended.
Return(val) == [kind |-> "return", val |-> val, exc |-> ""]
Raise(exc) == [kind |-> "raise", val |-> PyNone, exc |-> exc]
Running == [kind |-> "running", val |-> PyNone, exc |-> ""]

\* -------------------------------------------------------------- byte codec
Bit(x, i) == (x \div (2 ^ i)) % 2

\* x ^ y on bytes
Xor(x, y) ==
    LET b(i) == IF Bit(x, i) = Bit(y, i) THEN 0 ELSE 2 ^ i
    IN  b(0) + b(1) + b(2) + b(3) + b(4) + b(5) + b(6) + b(7)

\* [x ^ key for x in send_data]
XorAll(send_data, k) == [i \in 1..Len(send_data) |-> Xor(send_data[i], k)]

RECURSIVE Sum(_)
\* sum(data)
Sum(data) == IF Len(data) = 0 THEN 0 ELSE data[1] + Sum(Tail(data))

\* data[:-1]
ButLast(data) == SubSeq(data, 1, Len(data) - 1)

\* data + [sum(data) % 256]
WithChecksum(data) == Append(data, Sum(data) % 256)

\* "if self.key:" -- a key of None or 0 does not encrypt
Truthy(k) == k # None /\ k # 0

\* "if self.key: send_data = [x ^ self.key for x in send_data]"
Keyed(send_data, k) == IF Truthy(k) THEN XorAll(send_data, k) ELSE send_data

\* The write-frame command byte ((0x3 + 1) << 0x4) | 0xd
WriteCmd == (3 + 1) * 16 + 13

\* The read frame with its checksum left out of the keying.
readaddress_send_data_plain_sum(address, k) ==
    Append(Keyed(<<READ_CMD, address \div 256, address % 256>>, k),
           Sum(<<READ_CMD, address \div 256, address % 256>>) % 256)

\* The bytes readaddress puts on the wire.
readaddress_send_data(address, k) ==
    Keyed(WithChecksum(<<READ_CMD, address \div 256, address % 256>>), k)

\* The write frame with its checksum computed over the keyed bytes.
writedata_send_data_sum_of_keyed(address, data, k) ==
    WithChecksum(Keyed(<<WriteCmd, address \div 256, address % 256, data>>, k))

\* The bytes writedata puts on the wire.
writedata_send_data(address, data, k) ==
    Keyed(WithChecksum(<<WriteCmd, address \div 256, address % 256, data>>), k)

\* The key-negotiation frame of handshake.
keyneg_send_data(k) == Keyed(WithChecksum(<<KEYNEG_CMD, 0>>), k)

\* readaddress returning the echo byte read_data[0] instead of read_data[1].
readaddress_echo(read_data) ==
    IF Len(read_data) = 0 THEN Return(PyFalse)
    ELSE IF Len(read_data) # 3 THEN Raise("MK312ReceivingLengthException")
    ELSE IF Sum(ButLast(read_data)) % 256 # read_data[Len(read_data)]
         THEN Raise("MK312ChecksumException")
    ELSE Return(PyInt(read_data[1]))

\* What readaddress does with the answer to its frame.
readaddress(read_data) ==
    IF Len(read_data) = 0 THEN Return(PyFalse)
    ELSE IF Len(read_data) # 3 THEN Raise("MK312ReceivingLengthException")
    ELSE IF Sum(ButLast(read_data)) % 256 # read_data[Len(read_data)]
         THEN Raise("MK312ChecksumException")
    ELSE Return(PyInt(read_data[2]))

\* The range check with its upper limit forgotten.
writedata_value_ok_no_upper(data) == ~(data < 0)

\* The range check at the head of writedata.
writedata_value_ok(data) == ~(data < 0 \/ data > 255)

\* writedata taking every answer but 0x00 for the acknowledgement.
writedata_any_ack(read_data) ==
    IF Len(read_data) = 0 THEN Raise("IndexError")
    ELSE IF read_data[1] = 0 THEN Return(PyFalse)
    ELSE Return(PyTrue)

\* What writedata does with the answer to its frame.
writedata(read_data) ==
    IF Len(read_data) = 0 THEN Raise("IndexError")
    ELSE IF read_data[1] # ACK THEN Return(PyFalse)
    ELSE Return(PyTrue)

\* ------------------------------------------------- handshake, pure parts
\* "if self.key is not None: send_data = [x ^ self.key for x in send_data]"
\* at the head of every iteration of the probing loop.
probe_send_data(send_data, k) ==
    IF k # None THEN XorAll(send_data, k) ELSE send_data

\* "if len(read_data) == 0: self.key = 0x55" after a probe.
probe_key(read_data, k) == IF Len(read_data) = 0 THEN DEFAULT_KEY ELSE k

\* "len(read_data) == 1 and read_data[0] == 0x07"
probe_ready(read_data) == Len(read_data) = 1 /\ read_data[1] = READY

\* The budget test off by one: ">" for ">=".
probe_exhausted_late(count, budget) == count > budget

\* "if handshake_repeat >= self.handshake_repeat: raise", after the increment.
probe_exhausted(count, budget) == count >= budget

\* What handshake does with the answer to the key-negotiation frame:
\*   "default" : nothing came, take the default key and call handshake again
\*   "redo"    : checksum wrong, call handshake again
\*   "index"   : read_data[1] does not exist
\*   "key"     : the key is 0x55 ^ read_data[1]
keyneg_outcome(read_data) ==
    IF Len(read_data) = 0 THEN "default"
    ELSE IF Sum(ButLast(read_data)) % 256 # read_data[Len(read_data)] THEN "redo"
    ELSE IF Len(read_data) < 2 THEN "index"
    ELSE "key"

\* The key taken from read_data[0] instead of read_data[1].
keyneg_key_first_byte(read_data) == Xor(DEFAULT_KEY, read_data[1])

\* "self.key = 0x55 ^ read_data[1]"
keyneg_key(read_data) == Xor(DEFAULT_KEY, read_data[2])

\* The value the outermost handshake() returns when the key was derived in
\* the frame at the given depth: only that frame reaches "return True", the
\* frames that called it fall off their end or run a bare "return".
handshake_return(d) == IF d = 1 THEN PyTrue ELSE PyNone

\* ---------------------------------------------------------------- transport
\* Answers of port.read(1) to the probe byte.
ProbeAnswers == {<<>>, <<READY>>, <<0>>}

\* Answers of port.read(3) to the key-negotiation frame: nothing, one byte,
\* two bytes, three bytes with a right and with a wrong checksum.
KeynegAnswers ==
    {<<>>, <<0>>, <<33>>, <<42, 42>>, <<33, 42, 75>>, <<33, 42, 76>>, <<33, 85, 118>>}

\* Content bytes a register read can deliver.
ReadValues == {0, 1, 255}

\* Answers of port.read(3) to a read frame.
ReadAnswers ==
    {<<>>, <<34>>, <<34, 34>>}
    \cup {<<34, v, (34 + v) % 256>> : v \in ReadValues}
    \cup {<<34, v, (35 + v) % 256>> : v \in ReadValues}

\* Answers of port.read(1) to a write frame.
WriteAnswers == {<<>>, <<ACK>>, <<0>>, <<READY>>}

\* Keys a session is constructed with.
InitKeys == {None, DEFAULT_KEY}

\* Arguments of direct readaddress / writedata calls.
DirectAddresses == {253, 16512, 65535}
DirectData == {-1, 0, 6, 255, 256}

\* Arguments (mode, power level, level) of the operations.
Args == {-1, 0, 1, 256}

\* ------------------------------------------------- mk312/constants.py table
\* com.py imports its register addresses and command bytes from
\* mk312/constants.py.  Only ADDRESS_KEY is spelled out in com.py itself (the
\* log line of __resetkey names 0x4213); the other values are those of the
\* device's memory map, and the operations rely on nothing but their being
\* 16-bit addresses and bytes.
ADDRESS_KEY == 16915
ADDRESS_R15 == 16399
ADDRESS_LEVELA == 16484
ADDRESS_LEVELB == 16485
ADDRESS_COMMAND_1 == 16496
ADDRESS_CURRENT_MODE == 16507
ADDRESS_MA_MIN_VALUE == 16518
ADDRESS_MA_MAX_VALUE == 16519
ADDRESS_POWER_LEVEL == 16884
ADDRESS_LEVELMA == 16909
EEPROM_ADDRESS_FAVORITE_MODE == 32776
EEPROM_ADDRESS_POWER_LEVEL == 32777
COMMAND_START_FAVORITE_MODULE == 0
COMMAND_EXIT_MENU == 4
COMMAND_NEW_MODE == 18
\* "Set bit 0 to True" (adcDisable)
REGISTER_15_ADCDISABLE == 0

\* register15 | (1 << bit), with False counting as 0
SetBit(x, bit) == IF Bit(x, bit) = 1 THEN x ELSE x + 2 ^ bit

\* register15 & ~(1 << bit)
ClearBit(x, bit) == IF Bit(x, bit) = 1 THEN x - 2 ^ bit ELSE x

\* Python's bool(b)
PyBool(b) == IF b THEN PyTrue ELSE PyFalse

\* -------------------------------------------------------------------- state
VARIABLES
    key,              \* self.key
    handshake_repeat, \* self.handshake_repeat
    ctor_key,         \* the key the session was constructed with
    port_is_open,     \* self.port.is_open
    pc,               \* position of the running call; "idle" between calls,
                      \* "done" when the call has ended and its outcome stands
    call,             \* the public method running and its arguments
    depth,            \* nested handshake() frames
    repeat,           \* the local handshake_repeat of the innermost frame
    send_data,        \* the local send_data of the probing loop
    local,            \* value an operation keeps between two exchanges
    nprobe,           \* probe bytes written during this call
    nkeyneg,          \* key-negotiation frames written during this call
    frames,           \* register frames written during this call
    answers,          \* the answers to those frames, in the same order
    last_write,       \* the bytes of the latest port.write() of this call
    last_read,        \* the answer of the latest port.read() of this call
    port_reads,       \* port.read() calls of this call
    nsilent,          \* probes of this call that got no answer
    result,           \* how the call ended
    hs_state,         \* Idle, Probing, KeyNegotiating, Established, Failed
    negotiated        \* some handshake derived a key from an answer

vars == <<key, handshake_repeat, ctor_key, port_is_open, pc, call, depth,
          repeat, send_data, local, nprobe, nkeyneg, nsilent, frames,
          answers, last_write, last_read, port_reads, result, hs_state,
          negotiated>>

\* What stays of the session from one call to the next.
session == <<key, handshake_repeat, ctor_key, port_is_open, hs_state,
             negotiated>>

\* The locals of handshake().
hs_locals == <<depth, repeat, send_data>>

\* The count of the handshake's exchanges in this call.
hs_counts == <<nprobe, nkeyneg, nsilent>>

\* What went over the port for registers in this call.
wire == <<frames, answers, last_write, last_read, port_reads>>

NoCall == [op |-> "", arg |-> 0, address |-> 0]

Init ==
    /\ key \in InitKeys
    /\ ctor_key = key
    /\ handshake_repeat \in 0..MaxRepeat
    /\ port_is_open = TRUE
    /\ pc = "idle"
    /\ call = NoCall
    /\ depth = 0
    /\ repeat = 0
    /\ send_data = <<>>
    /\ local = PyNone
    /\ nprobe = 0
    /\ nkeyneg = 0
    /\ frames = <<>>
    /\ answers = <<>>
    /\ last_write = <<>>
    /\ last_read = <<>>
    /\ port_reads = 0
    /\ nsilent = 0
    /\ result = Running
    /\ hs_state = "Idle"
    /\ negotiated = FALSE

\* ----------------------------------------------------------- call plumbing
\* A public method is entered on an open port.
Enter(op, arg, address) ==
    /\ pc = "idle"
    /\ port_is_open
    /\ call' = [op |-> op, arg |-> arg, address |-> address]

\* The call ends.
Finish(r) ==
    /\ pc' = "done"
    /\ result' = r

\* The call goes on at position l.
Goto(l) ==
    /\ pc' = l
    /\ result' = Running

\* The caller has the outcome; the records of the call are dropped.
Return_to_caller ==
    /\ pc = "done"
    /\ pc' = "idle"
    /\ call' = NoCall
    /\ depth' = 0
    /\ repeat' = 0
    /\ send_data' = <<>>
    /\ local' = PyNone
    /\ nprobe' = 0
    /\ nkeyneg' = 0
    /\ frames' = <<>>
    /\ answers' = <<>>
    /\ last_write' = <<>>
    /\ last_read' = <<>>
    /\ port_reads' = 0
    /\ nsilent' = 0
    /\ result' = Running
    /\ UNCHANGED session

\* A register frame as the port sees it, with the key it was sent under and
\* the state of the handshake at that moment.
RegFrame(type, address, data) ==
    [type |-> type, address |-> address, data |-> data, key |-> key,
     hs |-> hs_state]

\* port.read() delivers read_data.
PortRead(read_data) ==
    /\ last_read' = read_data
    /\ port_reads' = port_reads + 1

\* port.write() of the frame of readaddress.
WriteReadFrame(address) ==
    /\ frames' = Append(frames, RegFrame("read", address, 0))
    /\ last_write' = readaddress_send_data(address, key)

\* port.write() of the frame of writedata.
WriteWriteFrame(address, data) ==
    /\ frames' = Append(frames, RegFrame("write", address, data))
    /\ last_write' = writedata_send_data(address, data, key)

\* The exchange of readaddress(address): the frame out, read_data in.
ReadExchange(address, read_data) ==
    /\ WriteReadFrame(address)
    /\ PortRead(read_data)
    /\ answers' = Append(answers, read_data)

\* The exchange of writedata(address, data): the frame out, read_data in.
WriteExchange(address, data, read_data) ==
    /\ WriteWriteFrame(address, data)
    /\ PortRead(read_data)
    /\ answers' = Append(answers, read_data)

\* readaddress or writedata raised: the exception ends the call.
Propagate(r) == Finish(r) /\ UNCHANGED local

\* writedata refused the value before any exchange.
RefuseValue ==
    /\ Finish(Raise("MK312WriteDataValueException"))
    /\ UNCHANGED <<wire, local>>

\* "return <value>"
ReturnValue(val) == Finish(Return(val)) /\ UNCHANGED local

\* A new handshake() frame starts (lines 108-114).
HandshakeFrame ==
    /\ depth' = depth + 1
    /\ repeat' = 0
    /\ send_data' = <<0>>
    /\ hs_state' = "Probing"

\* "if self.key is None: self.handshake()" at the head of an operation, whose
\* first exchange is at the position named like the operation.
EnsureKey(op) ==
    IF key = None
    THEN /\ HandshakeFrame
         /\ Goto("probe")
    ELSE /\ Goto(op)
         /\ UNCHANGED <<hs_locals, hs_state>>

\* An operation that starts with "if self.key is None: self.handshake()".
CallWithHandshake(op, arg) ==
    /\ Enter(op, arg, 0)
    /\ EnsureKey(op)
    /\ UNCHANGED <<key, handshake_repeat, ctor_key, port_is_open, negotiated,
                   local, hs_counts, wire>>

\* An operation that goes straight to its first exchange.
CallDirect(op, arg) ==
    /\ Enter(op, arg, 0)
    /\ Goto(op)
    /\ UNCHANGED <<session, hs_locals, local, hs_counts, wire>>

\* A step of an operation that falls back to the default key, as the
\* handshake does after a silent probe.
Step_default_key(at) ==
    /\ pc = at
    /\ key' = DEFAULT_KEY
    /\ UNCHANGED <<handshake_repeat, ctor_key, port_is_open, hs_state,
                   negotiated, hs_locals, call, hs_counts>>

\* A step of an operation after its handshake: the session and the handshake
\* records stay as they are.
Step(at) ==
    /\ pc = at
    /\ UNCHANGED <<session, hs_locals, call, hs_counts>>

\* ---------------------------------------------------------------- handshake
\* handshake() called by the user.
Call_handshake ==
    /\ Enter("handshake", 0, 0)
    /\ HandshakeFrame
    /\ Goto("probe")
    /\ UNCHANGED <<key, handshake_repeat, ctor_key, port_is_open, negotiated,
                   local, hs_counts, wire>>

\* One iteration of the probing loop (lines 116-142).
handshake_probe ==
    /\ pc = "probe"
    /\ \E read_data \in ProbeAnswers :
        LET sd == probe_send_data(send_data, key) IN
        /\ send_data' = sd
        /\ last_write' = sd
        /\ PortRead(read_data)
        /\ nprobe' = nprobe + 1
        /\ nsilent' = IF Len(read_data) = 0 THEN nsilent + 1 ELSE nsilent
        /\ key' = probe_key(read_data, key)
        /\ IF probe_ready(read_data)
           THEN /\ Goto("keyneg")
                /\ hs_state' = "KeyNegotiating"
                /\ UNCHANGED <<repeat, depth>>
           ELSE IF probe_exhausted(repeat + 1, handshake_repeat)
           THEN /\ Finish(Raise("MK312HandshakeException"))
                /\ hs_state' = "Failed"
                /\ repeat' = repeat + 1
                /\ UNCHANGED depth
           ELSE /\ Goto("probe")
                /\ repeat' = repeat + 1
                /\ UNCHANGED <<hs_state, depth>>
    /\ UNCHANGED <<handshake_repeat, ctor_key, port_is_open, call, local,
                   nkeyneg, frames, answers, negotiated>>

\* The key negotiation (lines 144-178), up to the next port exchange.
handshake_keyneg ==
    /\ pc = "keyneg"
    /\ \E read_data \in KeynegAnswers :
        LET o == keyneg_outcome(read_data) IN
        /\ last_write' = keyneg_send_data(key)
        /\ PortRead(read_data)
        /\ nkeyneg' = nkeyneg + 1
        /\ key' = CASE o = "default" -> DEFAULT_KEY
                    [] o = "key" -> keyneg_key(read_data)
                    [] OTHER -> key
        /\ negotiated' = (negotiated \/ o = "key")
        /\ CASE o = "key" ->
                  /\ hs_state' = "Established"
                  /\ IF call.op = "handshake"
                     THEN Finish(Return(handshake_return(depth)))
                     ELSE Goto(call.op)
                  /\ UNCHANGED hs_locals
             [] o = "index" ->
                  /\ hs_state' = "Failed"
                  /\ Finish(Raise("IndexError"))
                  /\ UNCHANGED hs_locals
             [] OTHER ->
                  IF depth >= MaxDepth
                  THEN /\ hs_state' = "Failed"
                       /\ Finish(Raise("RecursionError"))
                       /\ UNCHANGED hs_locals
                  ELSE /\ HandshakeFrame
                       /\ Goto("probe")
    /\ UNCHANGED <<handshake_repeat, ctor_key, port_is_open, call, local,
                   nprobe, nsilent, frames, answers>>

\* ------------------------------------------------------ register primitives
\* readaddress(address) called by the user (lines 190-237).
Call_readaddress ==
    \E address \in DirectAddresses :
        /\ Enter("readaddress", 0, address)
        /\ \E read_data \in ReadAnswers :
            /\ ReadExchange(address, read_data)
            /\ Finish(readaddress(read_data))
            /\ UNCHANGED local
        /\ UNCHANGED <<session, hs_locals, hs_counts>>

\* writedata(address, data) called by the user (lines 239-278).
Call_writedata ==
    \E address \in DirectAddresses, data \in DirectData :
        /\ Enter("writedata", data, address)
        /\ IF writedata_value_ok(data)
           THEN \E read_data \in WriteAnswers :
                    /\ WriteExchange(address, data, read_data)
                    /\ Finish(writedata(read_data))
                    /\ UNCHANGED local
           ELSE RefuseValue
        /\ UNCHANGED <<session, hs_locals, hs_counts>>

\* ------------------------------------------------- operations: shared shapes
\* "return self.readaddress(address)"
ReturnRead(at, address) ==
    /\ Step(at)
    /\ \E read_data \in ReadAnswers :
        /\ ReadExchange(address, read_data)
        /\ Finish(readaddress(read_data))
        /\ UNCHANGED local

\* "return self.writedata(address, data)"
ReturnWrite(at, address, data) ==
    /\ Step(at)
    /\ IF writedata_value_ok(data)
       THEN \E read_data \in WriteAnswers :
                /\ WriteExchange(address, data, read_data)
                /\ Finish(writedata(read_data))
                /\ UNCHANGED local
       ELSE RefuseValue

\* "if value == self.readaddress(address): return True", else on to the write
\* (favoriteModeWrite, powerLevelWrite, modeSwitch).
SkipIfStored(at, address, value, next) ==
    /\ Step(at)
    /\ \E read_data \in ReadAnswers :
        LET r == readaddress(read_data) IN
        /\ ReadExchange(address, read_data)
        /\ IF r.kind = "raise" THEN Propagate(r)
           ELSE IF PyEq(PyInt(value), r.val) THEN ReturnValue(PyTrue)
           ELSE Goto(next) /\ UNCHANGED local

\* "if not self.writedata(address, data): return False", else on to next
\* (modeSwitch, powerLevelSet, level*Set).
WriteOrFalse(at, address, data, next) ==
    /\ Step(at)
    /\ IF writedata_value_ok(data)
       THEN \E read_data \in WriteAnswers :
                LET r == writedata(read_data) IN
                /\ WriteExchange(address, data, read_data)
                /\ IF r.kind = "raise" THEN Propagate(r)
                   ELSE IF r.val = PyTrue THEN Goto(next) /\ UNCHANGED local
                   ELSE ReturnValue(PyFalse)
       ELSE RefuseValue

\* The read-back "if value is self.readaddress(address): return True / else:
\* return False" (powerLevelSet, level*Set).
ReadBackIs(at, address, value) ==
    /\ Step(at)
    /\ \E read_data \in ReadAnswers :
        LET r == readaddress(read_data) IN
        /\ ReadExchange(address, read_data)
        /\ IF r.kind = "raise" THEN Propagate(r)
           ELSE ReturnValue(PyBool(PyIs(PyInt(value), r.val)))

\* "x = self.readaddress(address)": the value is kept for the next step.
ReadInto(at, address, next) ==
    /\ Step(at)
    /\ \E read_data \in ReadAnswers :
        LET r == readaddress(read_data) IN
        /\ ReadExchange(address, read_data)
        /\ IF r.kind = "raise" THEN Propagate(r)
           ELSE Goto(next) /\ local' = r.val

\* ------------------------------------------------------------ favorite mode
\* favoriteModeLoad (lines 280-292)
Call_favoriteModeLoad == CallWithHandshake("favoriteModeLoad", 0)

favoriteModeLoad ==
    ReturnWrite("favoriteModeLoad", ADDRESS_COMMAND_1, COMMAND_START_FAVORITE_MODULE)

\* favoriteModeRead (lines 294-306)
Call_favoriteModeRead == CallWithHandshake("favoriteModeRead", 0)

favoriteModeRead == ReturnRead("favoriteModeRead", EEPROM_ADDRESS_FAVORITE_MODE)

\* favoriteModeWrite (lines 308-325)
Call_favoriteModeWrite ==
    \E mode \in Args : CallWithHandshake("favoriteModeWrite", mode)

favoriteModeWrite ==
    SkipIfStored("favoriteModeWrite", EEPROM_ADDRESS_FAVORITE_MODE, call.arg,
                 "favoriteModeWrite_write")

favoriteModeWrite_write ==
    ReturnWrite("favoriteModeWrite_write", EEPROM_ADDRESS_FAVORITE_MODE, call.arg)

\* --------------------------------------------------------------- modeSwitch
\* modeSwitch (lines 327-367)
Call_modeSwitch == \E mode \in Args : CallWithHandshake("modeSwitch", mode)

\* modeSwitch without its early return: the read, then always the writes.
modeSwitch_always_writes ==
    ReadInto("modeSwitch", ADDRESS_CURRENT_MODE, "modeSwitch_mode")

modeSwitch ==
    SkipIfStored("modeSwitch", ADDRESS_CURRENT_MODE, call.arg, "modeSwitch_mode")

modeSwitch_mode ==
    WriteOrFalse("modeSwitch_mode", ADDRESS_CURRENT_MODE, call.arg, "modeSwitch_exit")

modeSwitch_exit ==
    WriteOrFalse("modeSwitch_exit", ADDRESS_COMMAND_1, COMMAND_EXIT_MENU, "modeSwitch_new")

modeSwitch_new ==
    WriteOrFalse("modeSwitch_new", ADDRESS_COMMAND_1, COMMAND_NEW_MODE, "modeSwitch_check")

modeSwitch_check ==
    /\ Step("modeSwitch_check")
    /\ \E read_data \in ReadAnswers :
        LET r == readaddress(read_data) IN
        /\ ReadExchange(ADDRESS_CURRENT_MODE, read_data)
        /\ IF r.kind = "raise" THEN Propagate(r)
           ELSE ReturnValue(PyBool(PyEq(PyInt(call.arg), r.val)))

\* -------------------------------------------------------------- power level
\* powerLevelSet (lines 369-393)
Call_powerLevelSet == \E powerlevel \in Args : CallWithHandshake("powerLevelSet", powerlevel)

powerLevelSet ==
    WriteOrFalse("powerLevelSet", ADDRESS_POWER_LEVEL, call.arg, "powerLevelSet_check")

powerLevelSet_check == ReadBackIs("powerLevelSet_check", ADDRESS_POWER_LEVEL, call.arg)

\* powerLevelRead (lines 395-407)
Call_powerLevelRead == CallWithHandshake("powerLevelRead", 0)

powerLevelRead == ReturnRead("powerLevelRead", EEPROM_ADDRESS_POWER_LEVEL)

\* powerLevelWrite (lines 409-426)
Call_powerLevelWrite ==
    \E powerlevel \in Args : CallWithHandshake("powerLevelWrite", powerlevel)

powerLevelWrite ==
    SkipIfStored("powerLevelWrite", EEPROM_ADDRESS_POWER_LEVEL, call.arg,
                 "powerLevelWrite_write")

powerLevelWrite_write ==
    ReturnWrite("powerLevelWrite_write", EEPROM_ADDRESS_POWER_LEVEL, call.arg)

\* ---------------------------------------------------------------------- ADC
\* The value adcDisable writes back for what it read.
adcDisable_value(register15) == SetBit(register15.v, REGISTER_15_ADCDISABLE)

\* The value adcEnable writes back for what it read.
adcEnable_value(register15) == ClearBit(register15.v, REGISTER_15_ADCDISABLE)

\* adcDisable (lines 428-446)
Call_adcDisable == CallDirect("adcDisable", 0)

adcDisable == ReadInto("adcDisable", ADDRESS_R15, "adcDisable_write")

adcDisable_write ==
    ReturnWrite("adcDisable_write", ADDRESS_R15, adcDisable_value(local))

\* adcEnable (lines 448-466)
Call_adcEnable == CallDirect("adcEnable", 0)

adcEnable == ReadInto("adcEnable", ADDRESS_R15, "adcEnable_write")

adcEnable_write ==
    ReturnWrite("adcEnable_write", ADDRESS_R15, adcEnable_value(local))

\* ------------------------------------------------------------- levels A, B
\* The range check of levelASet / levelBSet with its upper limit forgotten.
level_in_range_no_upper(level) == ~(level < 0)

\* "if level < 0x00 or level > 0xff: return False" of levelASet / levelBSet
level_in_range(level) == ~(level < 0 \/ level > 255)

\* The head of levelASet / levelBSet: the range check, then the handshake.
CallLevelSet(op) ==
    \E level \in Args :
        /\ Enter(op, level, 0)
        /\ IF level_in_range(level)
           THEN EnsureKey(op)
           ELSE Finish(Return(PyFalse)) /\ UNCHANGED <<hs_locals, hs_state>>
        /\ UNCHANGED <<key, handshake_repeat, ctor_key, port_is_open,
                       negotiated, local, hs_counts, wire>>

\* levelASet (lines 468-496)
Call_levelASet == CallLevelSet("levelASet")

levelASet == WriteOrFalse("levelASet", ADDRESS_LEVELA, call.arg, "levelASet_check")

levelASet_check == ReadBackIs("levelASet_check", ADDRESS_LEVELA, call.arg)

\* levelAGet (lines 498-512)
Call_levelAGet == CallWithHandshake("levelAGet", 0)

levelAGet == ReturnRead("levelAGet", ADDRESS_LEVELA)

\* levelBSet (lines 514-542)
Call_levelBSet == CallLevelSet("levelBSet")

levelBSet == WriteOrFalse("levelBSet", ADDRESS_LEVELB, call.arg, "levelBSet_check")

levelBSet_check == ReadBackIs("levelBSet_check", ADDRESS_LEVELB, call.arg)

\* levelBGet (lines 544-558)
Call_levelBGet == CallWithHandshake("levelBGet", 0)

levelBGet == ReturnRead("levelBGet", ADDRESS_LEVELB)

\* ----------------------------------------------------------------- level MA
\* The range check of levelMASet looking at the minimum only.
levelMA_in_range_min_only(level, read_min_ma, read_max_ma) ==
    ~(level < read_min_ma.v)

\* "if level < read_min_ma or level > read_max_ma: return False"
levelMA_in_range(level, read_min_ma, read_max_ma) ==
    ~(level < read_min_ma.v \/ level > read_max_ma.v)

\* levelMASet (lines 560-591); its levelMAGetMinMaxValue finds the key set.
Call_levelMASet == \E level \in Args : CallWithHandshake("levelMASet", level)

levelMASet == ReadInto("levelMASet", ADDRESS_MA_MIN_VALUE, "levelMASet_max")

levelMASet_max ==
    /\ Step("levelMASet_max")
    /\ \E read_data \in ReadAnswers :
        LET r == readaddress(read_data) IN
        /\ ReadExchange(ADDRESS_MA_MAX_VALUE, read_data)
        /\ IF r.kind = "raise" THEN Propagate(r)
           ELSE IF levelMA_in_range(call.arg, local, r.val)
           THEN Goto("levelMASet_write") /\ UNCHANGED local
           ELSE ReturnValue(PyFalse)

levelMASet_write ==
    WriteOrFalse("levelMASet_write", ADDRESS_LEVELMA, call.arg, "levelMASet_check")

levelMASet_check == ReadBackIs("levelMASet_check", ADDRESS_LEVELMA, call.arg)

\* levelMAGetMinMaxValue (lines 593-613); the pair it returns is kept as
\* min * 256 + max.
Call_levelMAGetMinMaxValue == CallWithHandshake("levelMAGetMinMaxValue", 0)

levelMAGetMinMaxValue ==
    ReadInto("levelMAGetMinMaxValue", ADDRESS_MA_MIN_VALUE, "levelMAGetMinMaxValue_max")

levelMAGetMinMaxValue_max ==
    /\ Step("levelMAGetMinMaxValue_max")
    /\ \E read_data \in ReadAnswers :
        LET r == readaddress(read_data) IN
        /\ ReadExchange(ADDRESS_MA_MAX_VALUE, read_data)
        /\ IF r.kind = "raise" THEN Propagate(r)
           ELSE ReturnValue([t |-> "tuple", v |-> local.v * 256 + r.val.v])

\* levelMAGet (lines 615-629)
Call_levelMAGet == CallWithHandshake("levelMAGet", 0)

levelMAGet == ReturnRead("levelMAGet", ADDRESS_LEVELMA)

\* -------------------------------------------------------------------- close
\* close (lines 84-100) with its __resetkey (lines 180-188): the read of the
\* key register for the log line.
Call_close == CallDirect("close", 0)

close ==
    /\ Step("close")
    /\ \E read_data \in ReadAnswers :
        LET r == readaddress(read_data) IN
        /\ ReadExchange(ADDRESS_KEY, read_data)
        /\ IF r.kind = "raise" THEN Propagate(r)
           ELSE Goto("close_write") /\ UNCHANGED local

\* The key reset with "self.key = None" moved before the write of 0x00.
close_write_key_cleared_first ==
    /\ pc = "close_write"
    /\ \E read_data \in WriteAnswers :
        LET r == writedata(read_data) IN
        /\ frames' = Append(frames, [type |-> "write", address |-> ADDRESS_KEY,
                                     data |-> 0, key |-> None, hs |-> hs_state])
        /\ last_write' = writedata_send_data(ADDRESS_KEY, 0, None)
        /\ PortRead(read_data)
        /\ answers' = Append(answers, read_data)
        /\ key' = None
        /\ IF r.kind = "raise"
           THEN /\ Finish(r)
                /\ UNCHANGED <<port_is_open, hs_state>>
           ELSE /\ Finish(Return(PyTrue))
                /\ hs_state' = "Idle"
                /\ port_is_open' = FALSE
    /\ UNCHANGED <<handshake_repeat, ctor_key, negotiated, hs_locals, call,
                   local, hs_counts>>

\* The write of 0x00 to the key register, "self.key = None", and the closing
\* of the port.
close_write ==
    /\ pc = "close_write"
    /\ \E read_data \in WriteAnswers :
        LET r == writedata(read_data) IN
        /\ WriteExchange(ADDRESS_KEY, 0, read_data)
        /\ IF r.kind = "raise"
           THEN /\ Finish(r)
                /\ UNCHANGED <<key, port_is_open, hs_state>>
           ELSE /\ Finish(Return(PyTrue))
                /\ key' = None
                /\ hs_state' = "Idle"
                /\ port_is_open' = FALSE
    /\ UNCHANGED <<handshake_repeat, ctor_key, negotiated, hs_locals, call,
                   local, hs_counts>>

Next ==
    \/ Call_handshake
    \/ handshake_probe
    \/ handshake_keyneg
    \/ Call_readaddress
    \/ Call_writedata
    \/ Call_favoriteModeLoad
    \/ favoriteModeLoad
    \/ Call_favoriteModeRead
    \/ favoriteModeRead
    \/ Call_favoriteModeWrite
    \/ favoriteModeWrite
    \/ favoriteModeWrite_write
    \/ Call_modeSwitch
    \/ modeSwitch
    \/ modeSwitch_mode
    \/ modeSwitch_exit
    \/ modeSwitch_new
    \/ modeSwitch_check
    \/ Call_powerLevelSet
    \/ powerLevelSet
    \/ powerLevelSet_check
    \/ Call_powerLevelRead
    \/ powerLevelRead
    \/ Call_powerLevelWrite
    \/ powerLevelWrite
    \/ powerLevelWrite_write
    \/ Call_adcDisable
    \/ adcDisable
    \/ adcDisable_write
    \/ Call_adcEnable
    \/ adcEnable
    \/ adcEnable_write
    \/ Call_levelASet
    \/ levelASet
    \/ levelASet_check
    \/ Call_levelAGet
    \/ levelAGet
    \/ Call_levelBSet
    \/ levelBSet
    \/ levelBSet_check
    \/ Call_levelBGet
    \/ levelBGet
    \/ Call_levelMASet
    \/ levelMASet
    \/ levelMASet_max
    \/ levelMASet_write
    \/ levelMASet_check
    \/ Call_levelMAGetMinMaxValue
    \/ levelMAGetMinMaxValue
    \/ levelMAGetMinMaxValue_max
    \/ Call_levelMAGet
    \/ levelMAGet
    \/ Call_close
    \/ close
    \/ close_write
    \/ Return_to_caller

Spec == Init /\ [][Next]_vars


\* ================================================================== claims
Max(a, b) == IF a >= b THEN a ELSE b

\* sum(read_data[:-1]) % 256 == read_data[-1]
ChecksumOk(read_data) == Sum(ButLast(read_data)) % 256 = read_data[Len(read_data)]

\* Every probe of the running call went unanswered.
OnlySilentProbes == nprobe > 0 /\ nsilent = nprobe

\* A direct readaddress / writedata call has ended.
Done(op) == pc = "done" /\ call.op = op

\* C1: the probes and key-negotiation frames one call sends stay within what
\* the retry budget allows.  A handshake that charges every failed probe and
\* every restart to one budget of handshake_repeat sends at most
\* handshake_repeat + 1 probes and as many key-negotiation frames.
C1_AttemptsWithinBudget ==
    nprobe + nkeyneg <= 2 * (handshake_repeat + 1)

\* C2 as stated: when no probe is answered, at most handshake_repeat probe
\* bytes are sent and no key-negotiation frame.
C2_SilentAtMostBudget ==
    OnlySilentProbes => (nkeyneg = 0 /\ nprobe <= handshake_repeat)

\* C2 amended: when no probe is answered, the handshake sends no
\* key-negotiation frame and at most max(1, handshake_repeat) probe bytes, and
\* it ends with MK312HandshakeException after exactly that many.
C2_SilentAtMostBudgetOrOne ==
    OnlySilentProbes =>
        /\ nkeyneg = 0
        /\ frames = <<>>
        /\ nprobe <= Max(1, handshake_repeat)
        /\ pc \in {"probe", "done"}
        /\ pc = "done" =>
              /\ result = Raise("MK312HandshakeException")
              /\ nprobe = Max(1, handshake_repeat)
        /\ pc = "probe" => nprobe < handshake_repeat

C2_Witness ==
    /\ Done("handshake")
    /\ OnlySilentProbes
    /\ handshake_repeat = 2
    /\ nprobe = 2
    /\ result = Raise("MK312HandshakeException")

\* The operations of the Operation Layer.
OperationLayer ==
    {"favoriteModeLoad", "favoriteModeRead", "favoriteModeWrite", "modeSwitch",
     "powerLevelSet", "powerLevelRead", "powerLevelWrite", "adcDisable",
     "adcEnable", "levelASet", "levelAGet", "levelBSet", "levelBGet",
     "levelMASet", "levelMAGetMinMaxValue", "levelMAGet"}

\* C3: on a session constructed without a key, an operation of the Operation
\* Layer writes a register frame only while the latest handshake stands
\* Established.
C3_FramesOnlyEstablished ==
    (ctor_key = None /\ call.op \in OperationLayer) =>
        \A i \in 1..Len(frames) : frames[i].hs = "Established"

\* C4: on a session constructed without a key, the key is set only once a
\* handshake has derived it from a key-negotiation answer.
C4_KeyOnlyNegotiated ==
    (ctor_key = None /\ key # None) => negotiated

\* C5: a key-negotiation answer of 3 bytes with a valid checksum sets the key
\* to 0x55 XOR answer[1] and leaves the session Established; the answer
\* [0x21, 0x2A, 0x4B] gives the key 0x7F.
C5_KeyFromValidAnswer ==
    [][(pc = "keyneg" /\ Len(last_read') = 3 /\ ChecksumOk(last_read')) =>
          /\ key' = Xor(85, last_read'[2])
          /\ hs_state' = "Established"
          /\ pc' \notin {"probe", "keyneg"}
          /\ (last_read' = <<33, 42, 75>> => key' = 127)]_vars

C5_Witness ==
    /\ Done("handshake")
    /\ last_read = <<33, 42, 75>>
    /\ key = 127
    /\ hs_state = "Established"

\* C6: readaddress ends with the receiving-length error whenever fewer than
\* 3 bytes arrive, for 0, 1 and 2 bytes.
C6_ShortReadRaises ==
    (Done("readaddress") /\ Len(last_read) < 3) =>
        result = Raise("MK312ReceivingLengthException")

\* C7: on a 3-byte answer readaddress raises the checksum error iff
\* answer[2] # (answer[0] + answer[1]) mod 256, and otherwise returns
\* answer[1] as received, whatever the key.
C7_ReadValue ==
    (Done("readaddress") /\ Len(last_read) = 3) =>
        IF last_read[3] # (last_read[1] + last_read[2]) % 256
        THEN result = Raise("MK312ChecksumException")
        ELSE result = Return(PyInt(last_read[2]))

C7_Witness ==
    /\ Done("readaddress")
    /\ last_read = <<34, 255, 33>>
    /\ key = 127
    /\ result = Return(PyInt(255))

\* C8: writedata with a value in 0..255 does not raise over the device's
\* answer: with no byte answered it returns False.
C8_NoAnswerIsFalse ==
    (Done("writedata") /\ call.arg \in 0..255) =>
        /\ result.kind = "return"
        /\ (Len(last_read) = 0 => result = Return(PyFalse))

\* C9: with a value in 0..255 and a one-byte answer, writedata returns True
\* iff the byte is 0x06 and False for every other byte.
C9_AckIffSix ==
    (Done("writedata") /\ call.arg \in 0..255 /\ Len(last_read) = 1) =>
        result = Return(PyBool(last_read[1] = 6))

C9_Witness ==
    /\ Done("writedata")
    /\ call.arg \in 0..255
    /\ last_read = <<7>>
    /\ result = Return(PyFalse)

\* C10: writedata with a value below 0 or above 255 raises the value error
\* before any port activity: nothing is written, nothing is read, and the
\* key stays as it was.
C10_BadValueNoActivity ==
    [][(pc = "idle" /\ call'.op = "writedata"
            /\ (call'.arg < 0 \/ call'.arg > 255)) =>
          /\ pc' = "done"
          /\ result' = Raise("MK312WriteDataValueException")
          /\ frames' = <<>>
          /\ last_write' = <<>>
          /\ port_reads' = 0
          /\ nprobe' = 0
          /\ nkeyneg' = 0
          /\ key' = key]_vars

C10_Witness ==
    /\ Done("writedata")
    /\ call.arg = 256
    /\ key = 127
    /\ result = Raise("MK312WriteDataValueException")
    /\ port_reads = 0

\* The last register frame written during the running call.
LastFrame == frames[Len(frames)]

\* The bytes of a frame as the protocol gives them: the fields, then their
\* sum modulo 256, then every byte XORed with the key when one is set.
OnWire(fields, k) ==
    LET plain == Append(fields, Sum(fields) % 256)
    IN  IF k = None THEN plain ELSE [i \in 1..Len(plain) |-> Xor(plain[i], k)]

C12_ReadFrame ==
    (Len(frames) > 0 /\ LastFrame.type = "read") =>
        last_write = OnWire(<<60, LastFrame.address \div 256,
                              LastFrame.address % 256>>, LastFrame.key)

C12_Witness ==
    /\ Done("readaddress")
    /\ call.address = 65535
    /\ key = 127
    /\ last_write = <<67, 128, 128, 69>>

\* C13: close() always ends with the port closed, whatever the answers to
\* the frames of its reset-key step.
C13_CloseClosesPort ==
    Done("close") => ~port_is_open

\* C14: close() on a session that was built without a key and never derived
\* one from a key negotiation sends its reset-key frames unkeyed.
C14_CloseUnkeyedUnlessNegotiated ==
    (call.op = "close" /\ ctor_key = None /\ ~negotiated) =>
        \A i \in 1..Len(frames) : frames[i].key = None

\* The i-th register frame of the running call was answered with three bytes
\* whose checksum is right: the read returned the value answers[i][2].
ReadGave(i) ==
    /\ Len(answers) >= i
    /\ frames[i].type = "read"
    /\ Len(answers[i]) = 3
    /\ ChecksumOk(answers[i])

\* C15: when the read of the mode register returns a value equal to mode,
\* modeSwitch(mode) returns True and that read is the only register frame.
C15_SameModeNoWrite ==
    (call.op = "modeSwitch" /\ ReadGave(1) /\ answers[1][2] = call.arg) =>
        /\ pc = "done"
        /\ result = Return(PyTrue)
        /\ Len(frames) = 1
        /\ frames[1].address = ADDRESS_CURRENT_MODE

C15_Witness ==
    /\ Done("modeSwitch")
    /\ call.arg = 1
    /\ answers = << <<34, 1, 35>> >>
    /\ frames[1].hs = "Established"
    /\ result = Return(PyTrue)

\* The frames modeSwitch(mode) sends after the first read, in their order.
ModeSwitchOrder(mode) ==
    << [type |-> "read",  address |-> ADDRESS_CURRENT_MODE, data |-> 0],
       [type |-> "write", address |-> ADDRESS_CURRENT_MODE, data |-> mode],
       [type |-> "write", address |-> ADDRESS_COMMAND_1, data |-> COMMAND_EXIT_MENU],
       [type |-> "write", address |-> ADDRESS_COMMAND_1, data |-> COMMAND_NEW_MODE],
       [type |-> "read",  address |-> ADDRESS_CURRENT_MODE, data |-> 0] >>

\* C16: when the first read returned a mode other than the requested one,
\* modeSwitch sends the three writes and the read-back in this order; the
\* first write that is not acknowledged ends the call with False and no
\* further frame; after three acknowledgements the result is True iff the
\* value read back equals the requested mode.
C16_SwitchSequence ==
    (call.op = "modeSwitch" /\ call.arg \in 0..255 /\ ReadGave(1)
        /\ answers[1][2] # call.arg) =>
        /\ Len(frames) <= 5
        /\ \A i \in 1..Len(frames) :
              /\ frames[i].type = ModeSwitchOrder(call.arg)[i].type
              /\ frames[i].address = ModeSwitchOrder(call.arg)[i].address
              /\ frames[i].data = ModeSwitchOrder(call.arg)[i].data
        /\ \A i \in 2..4 :
              (Len(answers) >= i /\ answers[i] # <<ACK>>) =>
                  /\ pc = "done"
                  /\ result = Return(PyFalse)
                  /\ Len(frames) = i
        /\ (Len(answers) = 5 /\ ReadGave(5)) =>
                  /\ pc = "done"
                  /\ result = Return(PyBool(answers[5][2] = call.arg))

\* C17: levelASet and levelBSet with a level below 0 or above 255 return
\* False with no transport activity: no probe, no key-negotiation frame, no
\* register frame, no read of the port, and the key stays as it was, None
\* included.
C17_BadLevelNoActivity ==
    [][(pc = "idle" /\ call'.op \in {"levelASet", "levelBSet"}
            /\ (call'.arg < 0 \/ call'.arg > 255)) =>
          /\ pc' = "done"
          /\ result' = Return(PyFalse)
          /\ frames' = <<>>
          /\ last_write' = <<>>
          /\ port_reads' = 0
          /\ nprobe' = 0
          /\ nkeyneg' = 0
          /\ key' = key
          /\ hs_state' = hs_state]_vars

C17_Witness ==
    /\ Done("levelBSet")
    /\ call.arg = 256
    /\ key = None
    /\ result = Return(PyFalse)
    /\ port_reads = 0
    /\ last_write = <<>>

\* C18: levelMASet(level) reads the minimum register, then the maximum
\* register; when level is below the minimum or above the maximum these two
\* reads returned, it returns False and the two reads are all it sent.
C18_OutOfBoundsNoWrite ==
    call.op = "levelMASet" =>
        /\ Len(frames) >= 1 =>
              /\ frames[1].type = "read"
              /\ frames[1].address = ADDRESS_MA_MIN_VALUE
        /\ Len(frames) >= 2 =>
              /\ frames[2].type = "read"
              /\ frames[2].address = ADDRESS_MA_MAX_VALUE
        /\ (ReadGave(1) /\ ReadGave(2)
              /\ (call.arg < answers[1][2] \/ call.arg > answers[2][2])) =>
              /\ pc = "done"
              /\ result = Return(PyFalse)
              /\ Len(frames) = 2

C18_Witness ==
    /\ Done("levelMASet")
    /\ call.arg = 1
    /\ answers = << <<34, 0, 34>>, <<34, 0, 34>> >>
    /\ result = Return(PyFalse)

\* The EEPROM register favoriteModeWrite / powerLevelWrite store into.
EepromOf(op) ==
    IF op = "favoriteModeWrite" THEN EEPROM_ADDRESS_FAVORITE_MODE
    ELSE EEPROM_ADDRESS_POWER_LEVEL

\* C19: favoriteModeWrite and powerLevelWrite read the EEPROM register; when
\* the value read equals the requested one they return True with no write
\* frame; otherwise they send exactly one write of the requested value to
\* that register and return whether it was acknowledged.
C19_WriteOnlyIfChanged ==
    (call.op \in {"favoriteModeWrite", "powerLevelWrite"}
        /\ call.arg \in 0..255 /\ ReadGave(1)) =>
        /\ frames[1].address = EepromOf(call.op)
        /\ Len(frames) <= 2
        /\ answers[1][2] = call.arg =>
              /\ pc = "done"
              /\ result = Return(PyTrue)
              /\ Len(frames) = 1
        /\ (answers[1][2] # call.arg /\ Len(frames) = 2) =>
              /\ frames[2].type = "write"
              /\ frames[2].address = EepromOf(call.op)
              /\ frames[2].data = call.arg
              /\ pc = "done"
              /\ result = Return(PyBool(answers[2] = <<ACK>>))

\* The byte v with the bit at position bit set (on) or cleared, every other
\* bit as it is.
WithBit(v, bit, on) ==
    LET p == 2 ^ bit
    IN  (v \div (2 * p)) * (2 * p) + (IF on THEN p ELSE 0) + (v % p)

\* C20: adcDisable / adcEnable write back to the status register the value
\* they received from it with only the ADC-disable bit set / cleared; the
\* result is whether that write was acknowledged; no write is sent without
\* a status-register value having been received.
C20_AdcWritesWhatItRead ==
    call.op \in {"adcDisable", "adcEnable"} =>
        /\ Len(frames) <= 2
        /\ Len(frames) = 2 =>
              /\ ReadGave(1)
              /\ frames[1].address = ADDRESS_R15
              /\ frames[2].type = "write"
              /\ frames[2].address = ADDRESS_R15
              /\ frames[2].data = WithBit(answers[1][2], REGISTER_15_ADCDISABLE,
                                          call.op = "adcDisable")
              /\ pc = "done"
              /\ result = Return(PyBool(answers[2] = <<ACK>>))

\* C21: every probe byte handshake() writes is 0x00 XORed with the key held
\* when it is sent (0x00 when no key is set), on every iteration of the
\* probing loop.
C21_ProbeIsKeyedZero ==
    [][(pc = "probe" /\ nprobe' = nprobe + 1) =>
          last_write' = <<IF key = None THEN 0 ELSE Xor(0, key)>>]_vars

\* C22: a key-negotiation answer of one or two bytes never sets the key and
\* never ends the handshake as Established.
C22_ShortAnswerNoKey ==
    [][(pc = "keyneg" /\ Len(last_read') \in {1, 2}) =>
          /\ key' = key
          /\ hs_state' # "Established"
          /\ ~(pc' = "done" /\ result'.kind = "return")]_vars

\* C23: the key reset sends its write of 0x00 to the key register under the
\* key that was current before the reset, the key its read frame went out
\* under; after a completed reset the local key is None.
C23_ResetUnderCurrentKey ==
    (call.op = "close" /\ Len(frames) = 2) =>
        /\ frames[2].type = "write"
        /\ frames[2].address = ADDRESS_KEY
        /\ frames[2].data = 0
        /\ frames[2].key = frames[1].key
        /\ last_write = OnWire(<<77, ADDRESS_KEY \div 256, ADDRESS_KEY % 256, 0>>,
                               frames[1].key)
        /\ (result.kind = "return" => key = None)

C23_Witness ==
    /\ Done("close")
    /\ Len(frames) = 2
    /\ frames[2].key = 127
    /\ last_write = <<50, 61, 108, 127, 221>>
    /\ result = Return(PyTrue)
    /\ key = None

\* C24: the key is changed only by the handshake (its probing loop and its
\* key negotiation) and by the key reset: every step of readaddress, of
\* writedata and of an Operation Layer call leaves it as it was, whether the
\* step returns a value, returns False or raises.
C24_KeyOnlyByHandshakeAndReset ==
    [][key' # key => pc \in {"probe", "keyneg", "close_write"}]_vars

C24_Witness ==
    /\ Done("levelMASet")
    /\ result = Raise("IndexError")
    /\ Len(frames) = 3
    /\ frames[1].key = 127
    /\ key = 127

\* C25: handshake() returns True whenever it ends with the session
\* Established, also when a restart came before.
C25_EstablishedReturnsTrue ==
    (Done("handshake") /\ hs_state = "Established") => result = Return(PyTrue)

\* A register frame of the running call is a write.
SomeWriteFrame == \E i \in 1..Len(frames) : frames[i].type = "write"

\* C26: modeSwitch, favoriteModeWrite and powerLevelWrite return True without
\* a write frame only when a read received three checksum-valid bytes whose
\* content byte is the requested value; a read that received nothing never
\* counts as a match.
C26_TrueOnlyOnReceivedMatch ==
    (pc = "done"
        /\ call.op \in {"modeSwitch", "favoriteModeWrite", "powerLevelWrite"}
        /\ result = Return(PyTrue) /\ ~SomeWriteFrame) =>
        \E i \in 1..Len(frames) : ReadGave(i) /\ answers[i][2] = call.arg

====
